---- MODULE Spec2Model ----
(***************************************************************************)
(* pun (nubificus/pun): a buildkit frontend that turns a Dockerfile-syntax *)
(* Containerfile into an LLB graph for packaging unikernels.               *)
(*                                                                         *)
(* The model follows src/main.go (the frontend version, lines 217-542):    *)
(*   main -> punBuilder -> readFileFromLLB -> parseFile -> constructLLB    *)
(*        -> Solve -> annotateRes          (service mode, the default)     *)
(*   main -> ReadFile -> parseFile -> constructLLB -> WriteTo(stdout)      *)
(*                                         (standalone mode, --LLB)        *)
(*                                                                         *)
(* Strings the code inspects character by character (image references,     *)
(* label keys and values) are sequences of one-character strings; paths    *)
(* and messages the code only passes along are TLA+ strings.  A graph is   *)
(* the sequence of llb calls that built the state, in dependency order.    *)
(* An optional value (a Go pointer or result that may be nil) is a         *)
(* sequence of length at most one.                                         *)
(***************************************************************************)
EXTENDS Integers, Sequences, FiniteSets, TLC

VARIABLES
    pc,         \* position of the single flow of control
    cliOpts,    \* CLIOpts: [ContainerFile, PrintLLB]
    packFile,   \* punBuilder: packOpts[clientOptFilename]
    fileBytes,  \* the Containerfile content that was fetched or read (optional)
    idx,        \* parseFile: index of the next child of the AST
    instr,      \* parseFile: the PackInstructions under construction
    parseErr,   \* parseFile: the error it returned ("" is nil)
    packInst,   \* the *PackInstructions parseFile returned (optional)
    graph,      \* the definition constructLLB returned (<<>> is none)
    calls,      \* the remote calls issued to buildkit so far, with their error
    fetchErr,   \* readFileFromLLB: the error it returned (msg "" is nil)
    trace,      \* the stages the invocation went through, with their outcome
    result,     \* punBuilder: the *client.Result returned (optional)
    err,        \* the error of the invocation ("" is nil)
    stdout,     \* what llb.WriteTo wrote to os.Stdout (<<>> is nothing)
    exitCode    \* the exit status of the process (-1 while running)

vars == <<pc, cliOpts, packFile, fileBytes, idx, instr, parseErr, packInst,
          graph, calls, fetchErr, trace, result, err, stdout, exitCode>>

(***************************************************************************)
(* Bounds of the model                                                     *)
(***************************************************************************)
\* the longest Containerfile, in instructions
MaxInstrs == 3

(***************************************************************************)
(* Constants of the program                                                *)
(***************************************************************************)
DQ == "\""

unikraftHub == <<"u","n","i","k","r","a","f","t",".","o","r","g">>
packContextName == "context"
clientOptFilename == "filename"
uruncJSONPath == "/urunc.json"
scratch == <<"s","c","r","a","t","c","h">>
Mode0644 == 420

Nil == <<>>
Some(x) == <<x>>


(***************************************************************************)
(* Strings                                                                 *)
(***************************************************************************)
\* strings.HasPrefix(s, prefix)
HasPrefix(s, prefix) ==
    /\ Len(s) >= Len(prefix)
    /\ SubSeq(s, 1, Len(prefix)) = prefix

RECURSIVE TrimLeft(_, _)
\* strings.TrimLeft(s, cutset): drop every leading character of the cutset
TrimLeft(s, cutset) ==
    IF s # <<>> /\ Head(s) \in cutset THEN TrimLeft(Tail(s), cutset) ELSE s

RECURSIVE TrimRight(_, _)
\* strings.TrimRight(s, cutset): drop every trailing character of the cutset
TrimRight(s, cutset) ==
    IF s # <<>> /\ s[Len(s)] \in cutset
    THEN TrimRight(SubSeq(s, 1, Len(s) - 1), cutset)
    ELSE s

\* strings.Trim(s, cutset)
Trim(s, cutset) == TrimRight(TrimLeft(s, cutset), cutset)

\* []byte(val) for the characters the model's label values are made of
Ord(c) ==
    CASE c = DQ  -> 34
      [] c = "v" -> 118
      [] c = "w" -> 119
      [] c = "x" -> 120

Bytes(s) == [i \in 1..Len(s) |-> Ord(s[i])]

(***************************************************************************)
(* encoding/base64, StdEncoding                                            *)
(***************************************************************************)
StdAlphabet ==
    <<"A","B","C","D","E","F","G","H","I","J","K","L","M","N","O","P",
      "Q","R","S","T","U","V","W","X","Y","Z","a","b","c","d","e","f",
      "g","h","i","j","k","l","m","n","o","p","q","r","s","t","u","v",
      "w","x","y","z","0","1","2","3","4","5","6","7","8","9","+","/">>

StdPadding == "="

\* the character of a 6-bit value
Sextet(n) == StdAlphabet[(n % 64) + 1]

RECURSIVE EncodeToString_NoPadding(_)
\* EncodeToString of base64.RawStdEncoding: no padding
EncodeToString_NoPadding(src) ==
    IF Len(src) = 0 THEN <<>>
    ELSE IF Len(src) = 1 THEN
        LET n == src[1] * 65536
        IN  <<Sextet(n \div 262144), Sextet(n \div 4096)>>
    ELSE IF Len(src) = 2 THEN
        LET n == src[1] * 65536 + src[2] * 256
        IN  <<Sextet(n \div 262144), Sextet(n \div 4096), Sextet(n \div 64)>>
    ELSE
        LET n == src[1] * 65536 + src[2] * 256 + src[3]
        IN  <<Sextet(n \div 262144), Sextet(n \div 4096), Sextet(n \div 64), Sextet(n)>>
            \o EncodeToString_NoPadding(SubSeq(src, 4, Len(src)))

RECURSIVE EncodeToString(_)
\* base64.StdEncoding.EncodeToString(src): 3 bytes become 4 characters, a
\* final group of 1 or 2 bytes is padded with "="
EncodeToString(src) ==
    IF Len(src) = 0 THEN <<>>
    ELSE IF Len(src) = 1 THEN
        LET n == src[1] * 65536
        IN  <<Sextet(n \div 262144), Sextet(n \div 4096), StdPadding, StdPadding>>
    ELSE IF Len(src) = 2 THEN
        LET n == src[1] * 65536 + src[2] * 256
        IN  <<Sextet(n \div 262144), Sextet(n \div 4096), Sextet(n \div 64), StdPadding>>
    ELSE
        LET n == src[1] * 65536 + src[2] * 256 + src[3]
        IN  <<Sextet(n \div 262144), Sextet(n \div 4096), Sextet(n \div 64), Sextet(n)>>
            \o EncodeToString(SubSeq(src, 4, Len(src)))


(***************************************************************************)
(* Inputs: the children of the AST that parser.Parse returns.  A node is   *)
(*   FROM  <BaseName>          ParseInstruction returns *instructions.Stage *)
(*   COPY  <srcs...> <dst>     ... *instructions.CopyCommand; SourcePaths  *)
(*                             holds the plain paths only, so it is empty  *)
(*                             when every source is inline content         *)
(*   LABEL <k>=<v> ...         ... *instructions.LabelCommand; the keys    *)
(*                             and values still carry their quotes         *)
(*   RUN   ...                 ... any other instructions.Command          *)
(*   BAD                       ParseInstruction returns an error           *)
(***************************************************************************)
Refs ==
    { scratch,
      unikraftHub \o <<"/","n","g","i","n","x",":","1",".","1","5">>,
      <<"u","n","i","k","r","a","f","t",".","o","r">>,
      <<"a","l","p","i","n","e">> }

FromNodes == { [kind |-> "FROM", BaseName |-> r] : r \in Refs }

CopyNodes ==
    { [kind |-> "COPY", SourcePaths |-> <<"a.bin">>, DestPath |-> "/bin/a.bin"],
      [kind |-> "COPY", SourcePaths |-> <<"b.bin", "c.conf">>, DestPath |-> "/data/"],
      [kind |-> "COPY", SourcePaths |-> <<>>, DestPath |-> "/inline.txt"] }

KVP(k, v) == [Key |-> k, Value |-> v]

LabelNodes ==
    { \* LABEL k=v
      [kind |-> "LABEL", Labels |-> <<KVP(<<"k">>, <<"v">>)>>],
      \* LABEL "k2"="vw"
      [kind |-> "LABEL", Labels |-> <<KVP(<<DQ,"k","2",DQ>>, <<DQ,"v","w",DQ>>)>>],
      \* LABEL k3=""v"w""
      [kind |-> "LABEL", Labels |-> <<KVP(<<"k","3">>, <<DQ,DQ,"v",DQ,"w",DQ,DQ>>)>>],
      \* LABEL k4="x "k"=""
      [kind |-> "LABEL", Labels |-> <<KVP(<<"k","4">>, <<DQ,"x">>),
                                      KVP(<<DQ,"k",DQ>>, <<DQ,DQ>>)>>] }

OtherNodes == { [kind |-> "RUN"] }

BadNodes == { [kind |-> "BAD"] }

Nodes == FromNodes \cup CopyNodes \cup LabelNodes \cup OtherNodes \cup BadNodes

RECURSIVE SeqsUpTo(_, _)
\* the sequences over S of length at most n
SeqsUpTo(S, n) ==
    IF n = 0 THEN { <<>> }
    ELSE LET shorter == SeqsUpTo(S, n - 1)
         IN  shorter \cup { Append(q, x) : q \in shorter, x \in S }

\* what a read of the Containerfile can deliver: bytes parser.Parse rejects,
\* or bytes it turns into a list of nodes
Files ==
    { [parses |-> FALSE, nodes |-> <<>>] }
    \cup { [parses |-> TRUE, nodes |-> n] : n \in SeqsUpTo(Nodes, MaxInstrs) }

(***************************************************************************)
(* Errors, named by the message the code gives them                        *)
(***************************************************************************)
ErrParse         == "Failed to parse file"
ErrInstruction   == "Failed to parse instruction"
ErrMultiStage    == "Multi-stage builds are not supported"
ErrMissingOption == "filename: was not provided"
\* the errors of buildkit and of llb that the code receives and wraps
EngineErrors == { "context canceled", "no such file or directory" }

\* an error made by fmt.Errorf("<msg>: %w", cause); NoError is nil
WrappedError(msg, cause) == [msg |-> msg, cause |-> cause]
NoError == WrappedError("", "")

\* a remote call and the error the engine answered ("" is none)
Call(op, e) == [op |-> op, err |-> e]

MsgFetchMarshal == "Failed to marshal state for fetching filename"
MsgFetchSolve   == "Failed to solve state for fetching filename"
MsgFetchRef     == "Failed to get ref from solve resutl for fetching filename"
MsgFetchRead    == "Failed to read filename"
ErrFetchMarshal  == "Failed to fetch and read filename: Failed to marshal state for fetching filename"
ErrFetchSolve    == "Failed to fetch and read filename: Failed to solve state for fetching filename"
ErrFetchRef      == "Failed to fetch and read filename: Failed to get ref from solve resutl for fetching filename"
ErrFetchRead     == "Failed to fetch and read filename: Failed to read filename"
ErrParsing       == "Error parsing packing instructions"
ErrCreateLLB     == "Failed to create LLB definition : Failed to marshal LLB state"
ErrResolve       == "Failed to resolve LLB"
ErrAnnotate      == "Failed to annotate final image: Failed te get reference of LLB solve result"
ErrPanic         == "panic: runtime error: index out of range [0] with length 0"
ErrReadFile      == "Failed to read"
ErrNoFile        == "Please specify the Containerfile"
ErrGrpc          == "Could not start grpcclient"

(***************************************************************************)
(* parseFile                                                               *)
(***************************************************************************)
EmptyMap == [k \in {} |-> <<>>]

\* m[k] = v on a Go map
Put(m, k, v) == [x \in DOMAIN m \cup {k} |-> IF x = k THEN v ELSE m[x]]

\* new(PackInstructions) with Annots = make(map[string]string)
NewPackInstructions == [Base |-> <<>>, Copies |-> <<>>, Annots |-> EmptyMap]

\* annotate with the key stored as it is written
annotate_RawKey(annots, kvp) ==
    Put(annots, kvp.Key, Trim(kvp.Value, {DQ}))

\* the body of the loop over c.Labels
annotate(annots, kvp) ==
    LET annotKey == Trim(kvp.Key, {DQ})
    IN  Put(annots, annotKey, Trim(kvp.Value, {DQ}))

RECURSIVE handleLabels(_, _)
\* case *instructions.LabelCommand: for _, kvp := range c.Labels
handleLabels(annots, labels) ==
    IF labels = <<>> THEN annots
    ELSE handleLabels(annotate(annots, Head(labels)), Tail(labels))

\* case *instructions.CopyCommand: the command is stored as it is
handleCopy(copies, c) ==
    Append(copies, [SourcePaths |-> c.SourcePaths, DestPath |-> c.DestPath])

\* handleNode without the check of a base that is already set
handleNode_NoStageCheck(in, node) ==
    CASE node.kind = "BAD" ->
            [err |-> ErrInstruction, instr |-> in]
      [] node.kind = "FROM" ->
            [err |-> "", instr |-> [in EXCEPT !.Base = node.BaseName]]
      [] node.kind = "COPY" ->
            [err |-> "", instr |-> [in EXCEPT !.Copies = handleCopy(@, node)]]
      [] node.kind = "LABEL" ->
            [err |-> "", instr |-> [in EXCEPT !.Annots = handleLabels(@, node.Labels)]]
      [] OTHER ->
            [err |-> "", instr |-> in]

\* handleNode with the check of the base inverted (== for !=)
handleNode_StageCheckInverted(in, node) ==
    CASE node.kind = "BAD" ->
            [err |-> ErrInstruction, instr |-> in]
      [] node.kind = "FROM" ->
            IF in.Base = <<>>
            THEN [err |-> ErrMultiStage, instr |-> in]
            ELSE [err |-> "", instr |-> [in EXCEPT !.Base = node.BaseName]]
      [] node.kind = "COPY" ->
            [err |-> "", instr |-> [in EXCEPT !.Copies = handleCopy(@, node)]]
      [] node.kind = "LABEL" ->
            [err |-> "", instr |-> [in EXCEPT !.Annots = handleLabels(@, node.Labels)]]
      [] OTHER ->
            [err |-> "", instr |-> in]

\* handleNode failing on an instruction it does not support
handleNode_OtherFatal(in, node) ==
    CASE node.kind = "BAD" ->
            [err |-> ErrInstruction, instr |-> in]
      [] node.kind = "FROM" ->
            IF in.Base # <<>>
            THEN [err |-> ErrMultiStage, instr |-> in]
            ELSE [err |-> "", instr |-> [in EXCEPT !.Base = node.BaseName]]
      [] node.kind = "COPY" ->
            [err |-> "", instr |-> [in EXCEPT !.Copies = handleCopy(@, node)]]
      [] node.kind = "LABEL" ->
            [err |-> "", instr |-> [in EXCEPT !.Annots = handleLabels(@, node.Labels)]]
      [] OTHER ->
            [err |-> ErrInstruction, instr |-> in]

\* one iteration of the loop over parseRes.AST.Children:
\* [err, instr] with err = "" when the loop goes on
handleNode(in, node) ==
    CASE node.kind = "BAD" ->
            [err |-> ErrInstruction, instr |-> in]
      [] node.kind = "FROM" ->
            IF in.Base # <<>>
            THEN [err |-> ErrMultiStage, instr |-> in]
            ELSE [err |-> "", instr |-> [in EXCEPT !.Base = node.BaseName]]
      [] node.kind = "COPY" ->
            [err |-> "", instr |-> [in EXCEPT !.Copies = handleCopy(@, node)]]
      [] node.kind = "LABEL" ->
            [err |-> "", instr |-> [in EXCEPT !.Annots = handleLabels(@, node.Labels)]]
      [] OTHER ->
            [err |-> "", instr |-> in]

(***************************************************************************)
(* constructLLB                                                            *)
(***************************************************************************)
\* the side map of base64 values
uruncJSON(annots) == [k \in DOMAIN annots |-> EncodeToString(Bytes(annots[k]))]

\* json.Marshal of a map[string]string: a JSON object, the set of its members
\* (it cannot fail on such a map)
jsonMarshal(m) == { <<k, m[k]>> : k \in DOMAIN m }

\* baseState comparing the base with the hub instead of taking its prefix
baseState_ExactHub(Base) ==
    IF Base = scratch
    THEN <<[op |-> "Scratch"]>>
    ELSE IF Base = unikraftHub
    THEN <<[op |-> "Image", ref |-> Base, platform |-> TRUE,
            OS |-> "qemu", Architecture |-> "amd64"]>>
    ELSE <<[op |-> "Image", ref |-> Base, platform |-> FALSE]>>

\* the base image: llb.Scratch(), llb.Image(ref, llb.Platform(qemu/amd64)) or
\* llb.Image(ref)
baseState(Base) ==
    IF Base = scratch
    THEN <<[op |-> "Scratch"]>>
    ELSE IF HasPrefix(Base, unikraftHub)
    THEN <<[op |-> "Image", ref |-> Base, platform |-> TRUE,
            OS |-> "qemu", Architecture |-> "amd64"]>>
    ELSE <<[op |-> "Image", ref |-> Base, platform |-> FALSE]>>

\* base.File(llb.Copy(llb.Local(packContextName), src, dst, CreateDestPath))
copyIn(base, from, src, dst) ==
    Append(base, [op |-> "Copy", from |-> packContextName, src |-> src,
                  dst |-> dst, CreateDestPath |-> TRUE])

RECURSIVE copyAll_LastSource(_, _)
\* copyAll taking the last source path of every copy
copyAll_LastSource(base, copies) ==
    IF copies = <<>> THEN base
    ELSE copyAll_LastSource(
             copyIn(base, packContextName,
                    Head(copies).SourcePaths[Len(Head(copies).SourcePaths)],
                    Head(copies).DestPath),
             Tail(copies))

RECURSIVE copyAll(_, _)
\* for _, aCopy := range instr.Copies (every aCopy has a SourcePaths[0] here)
copyAll(base, copies) ==
    IF copies = <<>> THEN base
    ELSE copyAll(copyIn(base, packContextName, Head(copies).SourcePaths[1],
                        Head(copies).DestPath),
                 Tail(copies))

\* base.File(llb.Mkfile(uruncJSONPath, 0644, uruncJSONBytes))
mkfile(base, data) ==
    Append(base, [op |-> "Mkfile", path |-> uruncJSONPath, mode |-> Mode0644,
                  data |-> data])

\* aCopy.SourcePaths[0] on an empty slice panics
copiesPanic(copies) == \E i \in 1..Len(copies) : Len(copies[i].SourcePaths) = 0

\* constructLLB writing the file before the copies
constructLLB_MkfileFirst(in, marshalOk) ==
    LET uruncJSONBytes == jsonMarshal(uruncJSON(in.Annots))
    IN  IF copiesPanic(in.Copies)
        THEN [err |-> ErrPanic, dt |-> <<>>, annots |-> in.Annots]
        ELSE IF ~marshalOk
        THEN [err |-> ErrCreateLLB, dt |-> <<>>, annots |-> in.Annots]
        ELSE [err |-> "",
              dt |-> copyAll(mkfile(baseState(in.Base), uruncJSONBytes), in.Copies),
              annots |-> in.Annots]

\* constructLLB encoding the annotations in place, in the map it was given
constructLLB_InPlace(in, marshalOk) ==
    LET uruncJSONBytes == jsonMarshal(uruncJSON(in.Annots))
    IN  IF copiesPanic(in.Copies)
        THEN [err |-> ErrPanic, dt |-> <<>>, annots |-> uruncJSON(in.Annots)]
        ELSE IF ~marshalOk
        THEN [err |-> ErrCreateLLB, dt |-> <<>>, annots |-> uruncJSON(in.Annots)]
        ELSE [err |-> "",
              dt |-> mkfile(copyAll(baseState(in.Base), in.Copies), uruncJSONBytes),
              annots |-> uruncJSON(in.Annots)]

\* constructLLB(instr): [err, dt, annots]; marshalOk is whether base.Marshal
\* succeeds.  instr is passed by value but its Annots map is shared with the
\* caller: annots is that map as the call leaves it (the call only reads it).
constructLLB(in, marshalOk) ==
    LET uruncJSONBytes == jsonMarshal(uruncJSON(in.Annots))
    IN  IF copiesPanic(in.Copies)
        THEN [err |-> ErrPanic, dt |-> <<>>, annots |-> in.Annots]
        ELSE IF ~marshalOk
        THEN [err |-> ErrCreateLLB, dt |-> <<>>, annots |-> in.Annots]
        ELSE [err |-> "",
              dt |-> mkfile(copyAll(baseState(in.Base), in.Copies), uruncJSONBytes),
              annots |-> in.Annots]

(***************************************************************************)
(* annotateRes                                                             *)
(***************************************************************************)
\* the image config and the per-key manifest annotations added to the result
annotateRes(annots, res) ==
    [ref |-> res.ref,
     config |-> [Architecture |-> "amd64", OS |-> "linux", RootFSType |-> "layers",
                 WorkingDir |-> "/", Entrypoint |-> <<"/hello2">>,
                 Labels |-> annots],
     manifest |-> [k \in DOMAIN annots |-> annots[k]]]


(***************************************************************************)
(* The state machine                                                       *)
(***************************************************************************)
Init ==
    /\ pc = "parseCLIOpts"
    /\ cliOpts = [ContainerFile |-> "", PrintLLB |-> FALSE]
    /\ packFile = ""
    /\ fileBytes = Nil
    /\ idx = 0
    /\ instr = NewPackInstructions
    /\ parseErr = ""
    /\ packInst = Nil
    /\ graph = <<>>
    /\ calls = <<>>
    /\ fetchErr = NoError
    /\ trace = <<>>
    /\ result = Nil
    /\ err = ""
    /\ stdout = <<>>
    /\ exitCode = -1

Ev(stage, ok) == [stage |-> stage, ok |-> ok]

\* a stage succeeded: go on with the next one
Proceed(stage, next) ==
    /\ trace' = Append(trace, Ev(stage, TRUE))
    /\ pc' = next
    /\ UNCHANGED <<err, exitCode>>

\* a stage failed: punBuilder returns (nil, e), which makes the frontend fail,
\* or main prints e and calls os.Exit(1); a panic ends the process with status 2
Abort(stage, e) ==
    /\ trace' = Append(trace, Ev(stage, FALSE))
    /\ err' = e
    /\ exitCode' = IF e = ErrPanic THEN 2 ELSE 1
    /\ pc' = "done"

\* parseCLIOpts: -f/--file and --LLB
ParseCLIOpts ==
    /\ pc = "parseCLIOpts"
    /\ \E f \in {"", "Containerfile"}, l \in BOOLEAN :
          cliOpts' = [ContainerFile |-> f, PrintLLB |-> l]
    /\ pc' = "main"
    /\ UNCHANGED <<packFile, fetchErr, fileBytes, idx, instr, parseErr, packInst, graph,
                   calls, trace, result, err, stdout, exitCode>>

\* main, !cliOpts.PrintLLB: run as a buildkit frontend; grpcclient either
\* fails to start or invokes punBuilder
MainFrontend ==
    /\ pc = "main"
    /\ ~cliOpts.PrintLLB
    /\ \/ Abort("grpcclient", ErrGrpc)
       \/ Proceed("grpcclient", "punBuilder")
    /\ UNCHANGED <<cliOpts, fetchErr, packFile, fileBytes, idx, instr, parseErr, packInst,
                   graph, calls, result, stdout>>

\* main, --LLB without a Containerfile
MainNoFile ==
    /\ pc = "main"
    /\ cliOpts.PrintLLB
    /\ cliOpts.ContainerFile = ""
    /\ Abort("file", ErrNoFile)
    /\ UNCHANGED <<cliOpts, fetchErr, packFile, fileBytes, idx, instr, parseErr, packInst,
                   graph, calls, result, stdout>>

\* MainReadFile without the check of the path
MainReadFile_NoPathCheck ==
    /\ pc = "main"
    /\ cliOpts.PrintLLB
    /\ \/ /\ Abort("read", ErrReadFile)
          /\ UNCHANGED fileBytes
       \/ /\ \E f \in Files : fileBytes' = Some(f)
          /\ Proceed("read", "parseFile")
    /\ UNCHANGED <<cliOpts, fetchErr, packFile, idx, instr, parseErr, packInst, graph,
                   calls, result, stdout>>

\* main, --LLB: ioutil.ReadFile(cliOpts.ContainerFile)
MainReadFile ==
    /\ pc = "main"
    /\ cliOpts.PrintLLB
    /\ cliOpts.ContainerFile # ""
    /\ \/ /\ Abort("read", ErrReadFile)
          /\ UNCHANGED fileBytes
       \/ /\ \E f \in Files : fileBytes' = Some(f)
          /\ Proceed("read", "parseFile")
    /\ UNCHANGED <<cliOpts, fetchErr, packFile, idx, instr, parseErr, packInst, graph,
                   calls, result, stdout>>

\* PunBuilderOpts without the check of the option
PunBuilderOpts_NoCheck ==
    /\ pc = "punBuilder"
    /\ \E opt \in {"", "Containerfile"} :
          /\ packFile' = opt
          /\ Proceed("opts", "fetchSolve")
    /\ UNCHANGED <<cliOpts, fetchErr, fileBytes, idx, instr, parseErr, packInst, graph,
                   calls, result, stdout>>

\* punBuilder: the filename option; a key the map lacks reads as ""
PunBuilderOpts ==
    /\ pc = "punBuilder"
    /\ \E opt \in {"", "Containerfile"} :
          /\ packFile' = opt
          /\ IF opt = ""
             THEN Abort("opts", ErrMissingOption)
             ELSE Proceed("opts", "fetchSolve")
    /\ UNCHANGED <<cliOpts, fetchErr, fileBytes, idx, instr, parseErr, packInst, graph,
                   calls, result, stdout>>

\* ReadFileFromLLBSolve going on to the read when the result has no single ref
ReadFileFromLLBSolve_RefErrorIgnored ==
    /\ pc = "fetchSolve"
    /\ \/ /\ \E e \in EngineErrors : fetchErr' = WrappedError(MsgFetchMarshal, e)
          /\ Abort("fetchSolve", ErrFetchMarshal)
          /\ UNCHANGED calls
       \/ /\ \E e \in EngineErrors :
                /\ calls' = Append(calls, Call("Solve:file", e))
                /\ fetchErr' = WrappedError(MsgFetchSolve, e)
          /\ Abort("fetchSolve", ErrFetchSolve)
       \/ /\ calls' = Append(calls, Call("Solve:file", ""))
          /\ trace' = Append(trace, Ev("fetchSolve", FALSE))
          /\ pc' = "fetchRead"
          /\ UNCHANGED <<fetchErr, err, exitCode>>
       \/ /\ calls' = Append(calls, Call("Solve:file", ""))
          /\ Proceed("fetchSolve", "fetchRead")
          /\ UNCHANGED fetchErr
    /\ UNCHANGED <<cliOpts, packFile, fileBytes, idx, instr, parseErr, packInst,
                   graph, result, stdout>>

\* readFileFromLLB, first round trip: marshal the state that selects the
\* file, solve it, take the single ref of the result
ReadFileFromLLBSolve ==
    /\ pc = "fetchSolve"
    /\ \/ /\ \E e \in EngineErrors : fetchErr' = WrappedError(MsgFetchMarshal, e)
          /\ Abort("fetchSolve", ErrFetchMarshal)
          /\ UNCHANGED calls
       \/ /\ \E e \in EngineErrors :
                /\ calls' = Append(calls, Call("Solve:file", e))
                /\ fetchErr' = WrappedError(MsgFetchSolve, e)
          /\ Abort("fetchSolve", ErrFetchSolve)
       \/ /\ calls' = Append(calls, Call("Solve:file", ""))
          /\ \E e \in EngineErrors : fetchErr' = WrappedError(MsgFetchRef, e)
          /\ Abort("fetchSolve", ErrFetchRef)
       \/ /\ calls' = Append(calls, Call("Solve:file", ""))
          /\ Proceed("fetchSolve", "fetchRead")
          /\ UNCHANGED fetchErr
    /\ UNCHANGED <<cliOpts, packFile, fileBytes, idx, instr, parseErr, packInst,
                   graph, result, stdout>>

\* ReadFileFromLLBRead reporting a failed read with the message of the solve
ReadFileFromLLBRead_SolveMessage ==
    /\ pc = "fetchRead"
    /\ \/ /\ \E e \in EngineErrors :
                /\ calls' = Append(calls, Call("ReadFile", e))
                /\ fetchErr' = WrappedError(MsgFetchSolve, e)
          /\ Abort("fetchRead", ErrFetchSolve)
          /\ UNCHANGED fileBytes
       \/ /\ calls' = Append(calls, Call("ReadFile", ""))
          /\ \E f \in Files : fileBytes' = Some(f)
          /\ Proceed("fetchRead", "parseFile")
          /\ UNCHANGED fetchErr
    /\ UNCHANGED <<cliOpts, packFile, idx, instr, parseErr, packInst, graph,
                   result, stdout>>

\* readFileFromLLB, second round trip: fileRef.ReadFile
ReadFileFromLLBRead ==
    /\ pc = "fetchRead"
    /\ \/ /\ \E e \in EngineErrors :
                /\ calls' = Append(calls, Call("ReadFile", e))
                /\ fetchErr' = WrappedError(MsgFetchRead, e)
          /\ Abort("fetchRead", ErrFetchRead)
          /\ UNCHANGED fileBytes
       \/ /\ calls' = Append(calls, Call("ReadFile", ""))
          /\ \E f \in Files : fileBytes' = Some(f)
          /\ Proceed("fetchRead", "parseFile")
          /\ UNCHANGED fetchErr
    /\ UNCHANGED <<cliOpts, packFile, idx, instr, parseErr, packInst, graph,
                   result, stdout>>

\* parseFile: new(PackInstructions), parser.Parse
ParseFileBegin ==
    /\ pc = "parseFile"
    /\ instr' = NewPackInstructions
    /\ IF fileBytes[1].parses
       THEN /\ idx' = 1
            /\ pc' = "parseLoop"
            /\ UNCHANGED <<parseErr, trace, err, exitCode>>
       ELSE /\ parseErr' = ErrParse
            /\ Abort("parse", ErrParsing)
            /\ UNCHANGED idx
    /\ UNCHANGED <<cliOpts, fetchErr, packFile, fileBytes, packInst, graph, calls, result,
                   stdout>>

\* ParseFileNode going on with the next child after an error
ParseFileNode_ContinueOnError ==
    /\ pc = "parseLoop"
    /\ idx <= Len(fileBytes[1].nodes)
    /\ LET r == handleNode(instr, fileBytes[1].nodes[idx])
       IN  /\ instr' = r.instr
           /\ idx' = idx + 1
           /\ UNCHANGED <<pc, parseErr, trace, err, exitCode>>
    /\ UNCHANGED <<cliOpts, fetchErr, packFile, fileBytes, packInst, graph, calls, result,
                   stdout>>

\* parseFile: one child of the AST
ParseFileNode ==
    /\ pc = "parseLoop"
    /\ idx <= Len(fileBytes[1].nodes)
    /\ LET r == handleNode(instr, fileBytes[1].nodes[idx])
       IN  IF r.err = ""
           THEN /\ instr' = r.instr
                /\ idx' = idx + 1
                /\ UNCHANGED <<pc, parseErr, trace, err, exitCode>>
           ELSE /\ parseErr' = r.err
                /\ Abort("parse", ErrParsing)
                /\ UNCHANGED <<instr, idx>>
    /\ UNCHANGED <<cliOpts, fetchErr, packFile, fileBytes, packInst, graph, calls, result,
                   stdout>>

\* parseFile: return instr, nil
ParseFileReturn ==
    /\ pc = "parseLoop"
    /\ idx > Len(fileBytes[1].nodes)
    /\ packInst' = Some(instr)
    /\ Proceed("parse", "constructLLB")
    /\ UNCHANGED <<cliOpts, fetchErr, packFile, fileBytes, idx, instr, parseErr, graph,
                   calls, result, stdout>>

\* constructLLB(*packInst)
ConstructLLB ==
    /\ pc = "constructLLB"
    /\ \E marshalOk \in BOOLEAN :
          LET r == constructLLB(packInst[1], marshalOk)
          IN  /\ packInst' = Some([packInst[1] EXCEPT !.Annots = r.annots])
              /\ graph' = r.dt
              /\ IF r.err = ""
                 THEN Proceed("compile", IF cliOpts.PrintLLB THEN "write" ELSE "solve")
                 ELSE Abort("compile", r.err)
    /\ UNCHANGED <<cliOpts, fetchErr, packFile, fileBytes, idx, instr, parseErr, calls,
                   result, stdout>>

\* SolveLLB going on to annotateRes when the solve failed
SolveLLB_ErrorIgnored ==
    /\ pc = "solve"
    /\ result' = Some([ref |-> graph])
    /\ \/ /\ \E e \in EngineErrors : calls' = Append(calls, Call("Solve:llb", e))
          /\ trace' = Append(trace, Ev("solve", FALSE))
          /\ pc' = "annotateRes"
          /\ UNCHANGED <<err, exitCode>>
       \/ /\ calls' = Append(calls, Call("Solve:llb", ""))
          /\ Proceed("solve", "annotateRes")
    /\ UNCHANGED <<cliOpts, fetchErr, packFile, fileBytes, idx, instr, parseErr, packInst,
                   graph, stdout>>

\* punBuilder: c.Solve of the definition
SolveLLB ==
    /\ pc = "solve"
    /\ \/ /\ \E e \in EngineErrors : calls' = Append(calls, Call("Solve:llb", e))
          /\ Abort("solve", ErrResolve)
          /\ UNCHANGED result
       \/ /\ calls' = Append(calls, Call("Solve:llb", ""))
          /\ result' = Some([ref |-> graph])
          /\ Proceed("solve", "annotateRes")
    /\ UNCHANGED <<cliOpts, fetchErr, packFile, fileBytes, idx, instr, parseErr, packInst,
                   graph, stdout>>

\* punBuilder: annotateRes(packInst.Annots, result) and the return
AnnotateRes ==
    /\ pc = "annotateRes"
    /\ \/ /\ result' = Nil
          /\ Abort("annotate", ErrAnnotate)
       \/ /\ result' = Some(annotateRes(packInst[1].Annots, result[1]))
          /\ trace' = Append(trace, Ev("annotate", TRUE))
          /\ exitCode' = 0
          /\ pc' = "done"
          /\ UNCHANGED err
    /\ UNCHANGED <<cliOpts, fetchErr, packFile, fileBytes, idx, instr, parseErr, packInst,
                   graph, calls, stdout>>

\* main: llb.WriteTo(dt, os.Stdout); the error it returns is dropped, so a
\* write that fails leaves nothing (or not all) of the graph on standard
\* output and the process still exits with status 0
WriteLLB ==
    /\ pc = "write"
    /\ stdout' \in {graph, <<>>}
    /\ trace' = Append(trace, Ev("write", TRUE))
    /\ exitCode' = 0
    /\ pc' = "done"
    /\ UNCHANGED <<cliOpts, fetchErr, packFile, fileBytes, idx, instr, parseErr, packInst,
                   graph, calls, result, err>>

Next ==
    \/ ParseCLIOpts
    \/ MainFrontend
    \/ MainNoFile
    \/ MainReadFile
    \/ PunBuilderOpts
    \/ ReadFileFromLLBSolve
    \/ ReadFileFromLLBRead
    \/ ParseFileBegin
    \/ ParseFileNode
    \/ ParseFileReturn
    \/ ConstructLLB
    \/ SolveLLB
    \/ AnnotateRes
    \/ WriteLLB

Spec == Init /\ [][Next]_vars


(***************************************************************************)
(* Vocabulary of the properties                                            *)
(***************************************************************************)
\* a Containerfile was read and the parser turned it into nodes
HaveNodes == fileBytes # Nil /\ fileBytes[1].parses

\* the nodes of the Containerfile (when HaveNodes)
TheNodes == fileBytes[1].nodes

\* the positions of the nodes of a kind
Positions(kind) == { i \in 1..Len(TheNodes) : TheNodes[i].kind = kind }

\* the n-th smallest element of a set of positions
RECURSIVE Nth(_, _)
Nth(S, n) ==
    LET m == CHOOSE x \in S : \A y \in S : x <= y
    IN  IF n = 1 THEN m ELSE Nth(S \ {m}, n - 1)

\* parseFile has returned
ParseFileDone == \E i \in 1..Len(trace) : trace[i].stage = "parse"

\* constructLLB has been called
Compiled == \E i \in 1..Len(trace) : trace[i].stage = "compile"

(***************************************************************************)
(* C1: a Containerfile with two or more FROM makes parseFile fail with the *)
(* multi-stage error and return no descriptor; no graph is compiled.       *)
(* (The claim as stated.)                                                  *)
(***************************************************************************)
C1_MultiStageAlways ==
    (HaveNodes /\ Cardinality(Positions("FROM")) >= 2 /\ ParseFileDone)
        => /\ parseErr = ErrMultiStage
           /\ packInst = Nil
           /\ graph = <<>>

(***************************************************************************)
(* C1, amended: a Containerfile with two or more FROM makes parseFile fail *)
(* and return no descriptor, and no graph is ever compiled for it; the     *)
(* error is the multi-stage error exactly when no malformed instruction    *)
(* precedes the second FROM, and the instruction-parse error otherwise.    *)
(***************************************************************************)
C1_MultiStageRejected ==
    (HaveNodes /\ Cardinality(Positions("FROM")) >= 2)
        => /\ packInst = Nil
           /\ graph = <<>>
           /\ ~Compiled
           /\ ParseFileDone =>
                /\ pc = "done"
                /\ err = ErrParsing
                /\ LET second == Nth(Positions("FROM"), 2)
                   IN  IF \E b \in Positions("BAD") : b < second
                       THEN parseErr = ErrInstruction
                       ELSE parseErr = ErrMultiStage

\* C1: parseFile returned the multi-stage error for a file with two FROM
C1_Witness ==
    /\ HaveNodes
    /\ Cardinality(Positions("FROM")) >= 2
    /\ ParseFileDone
    /\ parseErr = ErrMultiStage
    /\ Positions("COPY") # {}

(***************************************************************************)
(* C2: a Containerfile with exactly one FROM makes parseFile succeed with  *)
(* a descriptor whose base is the reference of that FROM.  (The claim as   *)
(* stated.)                                                                *)
(***************************************************************************)
C2_SingleBaseAlways ==
    (HaveNodes /\ Cardinality(Positions("FROM")) = 1 /\ ParseFileDone)
        => /\ parseErr = ""
           /\ packInst # Nil
           /\ packInst[1].Base = TheNodes[Nth(Positions("FROM"), 1)].BaseName

(***************************************************************************)
(* C2, amended: a Containerfile with exactly one FROM and no malformed     *)
(* instruction makes parseFile succeed with a descriptor whose base is the *)
(* reference of that FROM.                                                 *)
(***************************************************************************)
C2_SingleBase ==
    (HaveNodes /\ Cardinality(Positions("FROM")) = 1 /\ Positions("BAD") = {}
       /\ ParseFileDone)
        => /\ parseErr = ""
           /\ packInst # Nil
           /\ packInst[1].Base = TheNodes[Nth(Positions("FROM"), 1)].BaseName

\* C2: parseFile returned a descriptor for a file whose one FROM comes after
\* other instructions
C2_Witness ==
    /\ HaveNodes
    /\ Cardinality(Positions("FROM")) = 1
    /\ Positions("BAD") = {}
    /\ Len(TheNodes) >= 2
    /\ TheNodes[1].kind # "FROM"
    /\ ParseFileDone
    /\ packInst # Nil


(***************************************************************************)
(* C3: for every COPY, whatever the number of its source paths, the graph  *)
(* holds one copy operation, from the first source path to the destination *)
(* of the instruction; the other source paths give no operation.           *)
(***************************************************************************)
C3_FirstSourceOnly ==
    graph # <<>> =>
        LET copyOps == SelectSeq(graph, LAMBDA o : o.op = "Copy")
            copyAt(i) == TheNodes[Nth(Positions("COPY"), i)]
        IN  /\ Len(copyOps) = Cardinality(Positions("COPY"))
            /\ \A i \in 1..Len(copyOps) :
                  /\ copyOps[i].src = copyAt(i).SourcePaths[1]
                  /\ copyOps[i].dst = copyAt(i).DestPath

\* C3: a graph was compiled from a COPY with two source paths
C3_Witness ==
    /\ graph # <<>>
    /\ \E i \in Positions("COPY") : Len(TheNodes[i].SourcePaths) = 2
    /\ \E i \in Positions("COPY") : Len(TheNodes[i].SourcePaths) = 1

(***************************************************************************)
(* Vocabulary of C4: the pairs of the LABEL instructions, in order, and    *)
(* two ways to unquote                                                     *)
(***************************************************************************)
RECURSIVE AllLabels(_)
AllLabels(nodes) ==
    IF nodes = <<>> THEN <<>>
    ELSE (IF Head(nodes).kind = "LABEL" THEN Head(nodes).Labels ELSE <<>>)
         \o AllLabels(Tail(nodes))

\* s without one surrounding pair of double quotes, if it has one
StripOneLayer(s) ==
    IF Len(s) >= 2 /\ s[1] = DQ /\ s[Len(s)] = DQ
    THEN SubSeq(s, 2, Len(s) - 1)
    ELSE s

\* t is s without all of its leading and trailing double quotes
IsUnquoted(s, t) ==
    /\ t = <<>> \/ (t[1] # DQ /\ t[Len(t)] # DQ)
    /\ \E a \in 0..Len(s), b \in 0..Len(s) :
          /\ a + Len(t) + b = Len(s)
          /\ \A i \in 1..a : s[i] = DQ
          /\ \A i \in 1..Len(t) : s[a + i] = t[i]
          /\ \A i \in 1..b : s[a + Len(t) + i] = DQ

(***************************************************************************)
(* C4: parseFile stores every key and value of a LABEL without one layer   *)
(* of surrounding double quotes, and removes no more than that layer; a    *)
(* later pair overwrites an earlier one of the same key.  (The claim as    *)
(* stated.)                                                                *)
(***************************************************************************)
C4_OneLayerStripped ==
    packInst # Nil =>
        LET kvps == AllLabels(TheNodes)
            annots == packInst[1].Annots
        IN  /\ DOMAIN annots = { StripOneLayer(kvps[i].Key) : i \in 1..Len(kvps) }
            /\ \A i \in 1..Len(kvps) :
                  (\A j \in (i+1)..Len(kvps) :
                      StripOneLayer(kvps[j].Key) # StripOneLayer(kvps[i].Key))
                  => annots[StripOneLayer(kvps[i].Key)] = StripOneLayer(kvps[i].Value)

(***************************************************************************)
(* C4, amended: parseFile stores every key and value of a LABEL without    *)
(* any of its leading and trailing double quotes (every layer, and quotes  *)
(* on one side only, are removed; quotes inside are kept); a later pair    *)
(* overwrites an earlier one of the same stored key.  So a key or value in *)
(* a single pair of double quotes is stored without them and an unquoted   *)
(* one is stored unchanged.                                                *)
(***************************************************************************)
C4_AllQuotesStripped ==
    packInst # Nil =>
        LET kvps == AllLabels(TheNodes)
            annots == packInst[1].Annots
        IN  /\ \A k \in DOMAIN annots : \E i \in 1..Len(kvps) : IsUnquoted(kvps[i].Key, k)
            /\ \A i \in 1..Len(kvps) : \E k \in DOMAIN annots :
                  /\ IsUnquoted(kvps[i].Key, k)
                  /\ (\A j \in (i+1)..Len(kvps) : ~IsUnquoted(kvps[j].Key, k))
                        => IsUnquoted(kvps[i].Value, annots[k])

\* C4: parseFile returned a descriptor for a file with a value in two layers
\* of quotes, a key in one layer and an unquoted key
C4_Witness ==
    /\ packInst # Nil
    /\ LET kvps == AllLabels(TheNodes)
       IN  /\ \E i \in 1..Len(kvps) : kvps[i].Value = <<DQ, DQ, "v", DQ, "w", DQ, DQ>>
           /\ \E i \in 1..Len(kvps) : kvps[i].Key = <<DQ, "k", "2", DQ>>
           /\ \E i \in 1..Len(kvps) : kvps[i].Key = <<"k">>

(***************************************************************************)
(* Vocabulary of C5: the decoding of base64 (RFC 4648, with padding);      *)
(* <<-1>> stands for an input that is not base64                           *)
(***************************************************************************)
B64Value(c) ==
    IF \E i \in 1..64 : StdAlphabet[i] = c
    THEN (CHOOSE i \in 1..64 : StdAlphabet[i] = c) - 1
    ELSE -1

RECURSIVE DecodeString(_)
DecodeString(s) ==
    IF s = <<>> THEN <<>>
    ELSE IF Len(s) < 4 \/ B64Value(s[1]) < 0 \/ B64Value(s[2]) < 0 THEN <<-1>>
    ELSE IF s[3] = StdPadding THEN
        IF Len(s) = 4 /\ s[4] = StdPadding
        THEN <<(B64Value(s[1]) * 4 + B64Value(s[2]) \div 16) % 256>>
        ELSE <<-1>>
    ELSE IF B64Value(s[3]) < 0 THEN <<-1>>
    ELSE IF s[4] = StdPadding THEN
        IF Len(s) = 4
        THEN <<(B64Value(s[1]) * 4 + B64Value(s[2]) \div 16) % 256,
               (B64Value(s[2]) * 16 + B64Value(s[3]) \div 4) % 256>>
        ELSE <<-1>>
    ELSE IF B64Value(s[4]) < 0 THEN <<-1>>
    ELSE LET rest == DecodeString(SubSeq(s, 5, Len(s)))
         IN  IF rest = <<-1>> THEN <<-1>>
             ELSE <<(B64Value(s[1]) * 4 + B64Value(s[2]) \div 16) % 256,
                    (B64Value(s[2]) * 16 + B64Value(s[3]) \div 4) % 256,
                    (B64Value(s[3]) * 64 + B64Value(s[4])) % 256>> \o rest

\* the data of the write of /urunc.json in a graph
Payload == graph[Len(graph)].data

(***************************************************************************)
(* C5: the payload written to /urunc.json has exactly the keys of the      *)
(* annotations of the descriptor, once each, and the base64 decoding of    *)
(* the value of a key is the annotation of that key.                       *)
(***************************************************************************)
C5_PayloadRoundTrip ==
    graph # <<>> =>
        LET annots == packInst[1].Annots
        IN  /\ { m[1] : m \in Payload } = DOMAIN annots
            /\ Cardinality(Payload) = Cardinality(DOMAIN annots)
            /\ \A m \in Payload : DecodeString(m[2]) = Bytes(annots[m[1]])

\* C5: a graph was compiled from annotations of 0, 1, 2 and 3 bytes
C5_Witness ==
    /\ graph # <<>>
    /\ { Len(packInst[1].Annots[k]) : k \in DOMAIN packInst[1].Annots } = {0, 1, 2, 3}

(***************************************************************************)
(* Vocabulary of C6                                                        *)
(***************************************************************************)
\* r is the catalog registry followed by something
IsCatalogRef(r) == \E n \in 0..Len(r) : r = unikraftHub \o SubSeq(r, n + 1, Len(r))

(***************************************************************************)
(* C6: the base of a graph is decided by the base reference alone, three   *)
(* ways: "scratch" gives the empty root, a reference that starts with the  *)
(* catalog registry gives a pull of that reference with the platform       *)
(* qemu/amd64, any other non-empty reference gives a pull of it with the   *)
(* default platform.                                                       *)
(***************************************************************************)
C6_BaseResolution ==
    graph # <<>> =>
        LET ref == packInst[1].Base
        IN  /\ ref = <<"s","c","r","a","t","c","h">> => graph[1] = [op |-> "Scratch"]
            /\ IsCatalogRef(ref) =>
                  graph[1] = [op |-> "Image", ref |-> ref, platform |-> TRUE,
                              OS |-> "qemu", Architecture |-> "amd64"]
            /\ (ref # <<>> /\ ref # <<"s","c","r","a","t","c","h">> /\ ~IsCatalogRef(ref)) =>
                  graph[1] = [op |-> "Image", ref |-> ref, platform |-> FALSE]

\* C6: a graph was compiled on unikraft.org/nginx:1.15
C6_Witness ==
    /\ graph # <<>>
    /\ packInst[1].Base = <<"u","n","i","k","r","a","f","t",".","o","r","g",
                            "/","n","g","i","n","x",":","1",".","1","5">>
    /\ graph[1].op = "Image"

(***************************************************************************)
(* C7: a graph is, in this order, the base, one copy from the context per  *)
(* copy of the descriptor, in the order of the descriptor and creating the *)
(* destination directories, and one write of /urunc.json, which is last.   *)
(***************************************************************************)
C7_GraphOrder ==
    graph # <<>> =>
        LET copies == packInst[1].Copies
        IN  /\ Len(graph) = Len(copies) + 2
            /\ graph[1].op \in {"Scratch", "Image"}
            /\ \A i \in 1..Len(copies) :
                  graph[i + 1] = [op |-> "Copy", from |-> "context",
                                  src |-> copies[i].SourcePaths[1],
                                  dst |-> copies[i].DestPath,
                                  CreateDestPath |-> TRUE]
            /\ graph[Len(graph)].op = "Mkfile"
            /\ graph[Len(graph)].path = "/urunc.json"
            /\ \A i \in 1..(Len(graph) - 1) : graph[i].op # "Mkfile"

\* C7: a graph was compiled from two different copies
C7_Witness ==
    /\ graph # <<>>
    /\ Len(packInst[1].Copies) = 2
    /\ packInst[1].Copies[1] # packInst[1].Copies[2]

\* C7: a graph was compiled without copies and without annotations
C7_WitnessEmpty ==
    /\ graph # <<>>
    /\ packInst[1].Copies = <<>>
    /\ DOMAIN packInst[1].Annots = {}


(***************************************************************************)
(* C8: in service mode a request without the filename option, or with an   *)
(* empty one, fails at once with the missing-option error: no remote call  *)
(* (solve or file read) is made for it and it returns no result.           *)
(***************************************************************************)
C8_MissingOptionNoRoundTrip ==
    (\E i \in 1..Len(trace) : trace[i].stage = "opts") /\ packFile = ""
        => /\ pc = "done"
           /\ err = ErrMissingOption
           /\ calls = <<>>
           /\ result = Nil
           /\ fileBytes = Nil

\* C8: punBuilder read an empty filename option
C8_Witness ==
    /\ ~cliOpts.PrintLLB
    /\ \E i \in 1..Len(trace) : trace[i].stage = "opts"
    /\ packFile = ""
    /\ pc = "done"

(***************************************************************************)
(* C9: the result of a successful service-mode invocation carries, as      *)
(* image labels and as per-key manifest annotations, the annotations as    *)
(* parseFile extracted them, while /urunc.json carries their base64        *)
(* encodings; and constructLLB leaves the annotations of the descriptor as *)
(* they are.                                                               *)
(***************************************************************************)
C9_DualRepresentation ==
    /\ [](pc = "done" /\ result # Nil =>
            /\ result[1].config.Labels = instr.Annots
            /\ DOMAIN result[1].manifest = DOMAIN instr.Annots
            /\ \A k \in DOMAIN instr.Annots : result[1].manifest[k] = instr.Annots[k]
            /\ \A m \in Payload :
                  /\ DecodeString(m[2]) = Bytes(instr.Annots[m[1]])
                  /\ instr.Annots[m[1]] # <<>> => m[2] # result[1].config.Labels[m[1]])
    /\ [][pc = "constructLLB" => packInst' = packInst]_vars

\* C9: a result was returned with annotations, one of them with a quote inside
C9_Witness ==
    /\ pc = "done"
    /\ result # Nil
    /\ Cardinality(DOMAIN result[1].config.Labels) >= 2
    /\ \E k \in DOMAIN result[1].config.Labels :
          result[1].config.Labels[k] = <<"v", DQ, "w">>

(***************************************************************************)
(* Vocabulary of C10                                                       *)
(***************************************************************************)
\* the stages gone through, in order
Stages == [i \in 1..Len(trace) |-> trace[i].stage]

\* a stage failed
Failed == \E i \in 1..Len(trace) : ~trace[i].ok

(***************************************************************************)
(* C10: no partial success.  A failed stage is the last stage of the       *)
(* invocation and leaves an error, no result, nothing on standard output   *)
(* and a non-zero exit status.  In service mode a result is returned       *)
(* exactly when the option lookup, both fetch phases, extraction,          *)
(* compilation, the solve and the annotation all succeeded.  In standalone *)
(* mode a graph is written to standard output only when the read,          *)
(* extraction and compilation all succeeded, and the process exits         *)
(* non-zero with nothing written otherwise.                                *)
(***************************************************************************)
C10_NoPartialSuccess ==
    /\ \A i \in 1..(Len(trace) - 1) : trace[i].ok
    /\ Failed => /\ pc = "done"
                 /\ err # ""
                 /\ result = Nil
                 /\ stdout = <<>>
                 /\ exitCode \notin {-1, 0}
    /\ (pc = "done" /\ ~cliOpts.PrintLLB) =>
          /\ result # Nil <=>
                (~Failed /\ Stages = <<"grpcclient", "opts", "fetchSolve", "fetchRead",
                                       "parse", "compile", "solve", "annotate">>)
          /\ result # Nil <=> err = ""
          /\ stdout = <<>>
    /\ (pc = "done" /\ cliOpts.PrintLLB) =>
          /\ stdout # <<>> =>
                /\ ~Failed
                /\ Stages = <<"read", "parse", "compile", "write">>
                /\ stdout = graph /\ exitCode = 0 /\ err = ""
          /\ Stages # <<"read", "parse", "compile", "write">> =>
                (Failed /\ stdout = <<>> /\ exitCode # 0 /\ err # "")
          /\ result = Nil
    /\ pc # "done" => (stdout = <<>> /\ err = "" /\ exitCode = -1)

\* C10: a service-mode invocation failed after the graph was compiled
C10_Witness ==
    /\ pc = "done"
    /\ ~cliOpts.PrintLLB
    /\ graph # <<>>
    /\ Failed
    /\ result = Nil

\* C10: a standalone run failed in compilation
C10_WitnessStandalone ==
    /\ pc = "done"
    /\ cliOpts.PrintLLB
    /\ packInst # Nil
    /\ Failed
    /\ stdout = <<>>



C12_PathOnlyPrintsLLB ==
    (cliOpts = [ContainerFile |-> "Containerfile", PrintLLB |-> FALSE]
       /\ pc \notin {"parseCLIOpts", "main"}) =>
        /\ \A i \in 1..Len(trace) : trace[i].stage # "grpcclient"
        /\ calls = <<>>
        /\ (pc = "done" /\ err = "") => (graph # <<>> /\ stdout = graph)

(***************************************************************************)
(* Vocabulary of C13                                                       *)
(***************************************************************************)
\* the nodes without the instructions parseFile does not support
Supported(nodes) == SelectSeq(nodes, LAMBDA n : n.kind # "RUN")

RECURSIVE Extract(_, _)
\* the loop of parseFile run to its end on a list of nodes: [err, instr]
Extract(in, nodes) ==
    IF nodes = <<>> THEN [err |-> "", instr |-> in]
    ELSE LET r == handleNode(in, Head(nodes))
         IN  IF r.err # "" THEN r ELSE Extract(r.instr, Tail(nodes))

(***************************************************************************)
(* C13: an instruction that is recognized but is no FROM, COPY or LABEL    *)
(* changes nothing and does not stop extraction: at every point of the     *)
(* loop, and at its end, the descriptor and the error are those of the     *)
(* same list without these instructions.                                   *)
(***************************************************************************)
C13_OtherInstructionsIgnored ==
    HaveNodes =>
        /\ pc = "parseLoop" =>
              LET r == Extract(NewPackInstructions,
                               Supported(SubSeq(TheNodes, 1, idx - 1)))
              IN  r.err = "" /\ instr = r.instr
        /\ ParseFileDone =>
              LET r == Extract(NewPackInstructions, Supported(TheNodes))
              IN  /\ parseErr = r.err
                  /\ packInst = IF r.err = "" THEN Some(r.instr) ELSE Nil

\* C13: a descriptor was extracted from RUN, FROM, RUN
C13_Witness ==
    /\ HaveNodes
    /\ ParseFileDone
    /\ packInst # Nil
    /\ Len(TheNodes) = 3
    /\ TheNodes[1].kind = "RUN"
    /\ TheNodes[2].kind = "FROM"
    /\ TheNodes[3].kind = "RUN"
    /\ packInst[1].Base = TheNodes[2].BaseName

C15_RemoteCallOrder ==
    LET ops == [i \in 1..Len(calls) |-> calls[i].op]
        ok(stage) == \E i \in 1..Len(trace) : trace[i] = Ev(stage, TRUE)
    IN  /\ \E n \in 0..3 : ops = SubSeq(<<"Solve:file", "ReadFile", "Solve:llb">>, 1, n)
        /\ \A i \in 1..(Len(calls) - 1) : calls[i].err = ""
        /\ Len(calls) >= 2 => ok("fetchSolve")
        /\ Len(calls) >= 3 => (ok("fetchRead") /\ ok("parse") /\ ok("compile"))
        /\ calls # <<>> => ~cliOpts.PrintLLB

\* C15: the three calls were made
C15_Witness ==
    /\ Len(calls) = 3
    /\ calls[3].err # ""

(***************************************************************************)
(* C16: when the fetch fails, the error of the handler names the phase     *)
(* that failed (the solve of the state that selects the file, or the read  *)
(* of the file) and wraps the error that the engine gave; the errors of    *)
(* the two phases differ.                                                  *)
(***************************************************************************)
C16_FetchErrorNamesPhase ==
    (pc = "done" /\ trace # <<>> /\ ~trace[Len(trace)].ok
       /\ trace[Len(trace)].stage \in {"fetchSolve", "fetchRead"}) =>
        LET phase1 == { "Failed to marshal state for fetching filename",
                        "Failed to solve state for fetching filename",
                        "Failed to get ref from solve resutl for fetching filename" }
            phase2 == { "Failed to read filename" }
        IN  /\ trace[Len(trace)].stage = "fetchSolve" => fetchErr.msg \in phase1
            /\ trace[Len(trace)].stage = "fetchRead" => fetchErr.msg \in phase2
            /\ err = "Failed to fetch and read filename: " \o fetchErr.msg
            /\ fetchErr.cause \in EngineErrors
            /\ (calls # <<>> /\ calls[Len(calls)].err # "") =>
                  fetchErr.cause = calls[Len(calls)].err
            /\ result = Nil

\* C16: the read of the file failed after the solve succeeded
C16_Witness ==
    /\ pc = "done"
    /\ Len(calls) = 2
    /\ calls[2].err = "no such file or directory"
    /\ fetchErr.cause = "no such file or directory"

(***************************************************************************)
(* C17: parseFile takes the instructions in their order and returns at the *)
(* first one that ParseInstruction rejects, when it gets there, with the   *)
(* instruction-parse error and no descriptor: no later instruction is      *)
(* looked at, so a second FROM after it is not reported, and the partly    *)
(* built descriptor is not returned.                                       *)
(***************************************************************************)
C17_StopsAtFirstMalformed ==
    HaveNodes =>
        /\ pc = "parseLoop" =>
              /\ idx \in 1..(Len(TheNodes) + 1)
              /\ \A i \in 1..(idx - 1) : TheNodes[i].kind # "BAD"
        /\ (ParseFileDone /\ Positions("BAD") # {}) =>
              LET b == Nth(Positions("BAD"), 1)
                  fromsBefore == { i \in Positions("FROM") : i < b }
              IN  /\ packInst = Nil
                  /\ graph = <<>>
                  /\ idx <= b
                  /\ Cardinality(fromsBefore) <= 1 =>
                        (idx = b /\ parseErr = "Failed to parse instruction")
                  /\ idx < b => parseErr = "Multi-stage builds are not supported"

\* C17: parseFile stopped at a malformed instruction between two FROM
C17_Witness ==
    /\ HaveNodes
    /\ ParseFileDone
    /\ Len(TheNodes) = 3
    /\ TheNodes[1].kind = "FROM"
    /\ TheNodes[2].kind = "BAD"
    /\ TheNodes[3].kind = "FROM"
    /\ parseErr = "Failed to parse instruction"
    /\ instr.Base # <<>>
    /\ packInst = Nil

(***************************************************************************)
(* C18: every copy of an extracted descriptor has a source path, and       *)
(* constructLLB does not fault on the first source path of a copy.  (The   *)
(* claim as stated.)                                                       *)
(***************************************************************************)
C18_CopiesHaveSource ==
    /\ packInst # Nil =>
          \A i \in 1..Len(packInst[1].Copies) :
              Len(packInst[1].Copies[i].SourcePaths) >= 1
    /\ err # ErrPanic

====
